---- MODULE Spec2Model ----
(***************************************************************************)
(* Model of src/core/Database.cpp: the in-memory database object, its      *)
(* modification tracker, the process-wide UUID registry and the            *)
(* persistence engine (open / save / saveAs / performSave).                *)
(*                                                                         *)
(* Every Database object is a record; a method of the class is an operator *)
(* from the object's record to its new record, so that a handler calling   *)
(* other methods is the composition of their operators.  The disk, the     *)
(* static registry and the observation of the last call are globals.       *)
(***************************************************************************)
EXTENDS Integers, Sequences, FiniteSets, TLC

\* ------------------------------------------------------------- bounds
\* Number of Database objects (slots) that can exist at once.
MaxDb == 2
\* Number of identifiers QUuid::createUuid hands out in one behaviour.
MaxUuid == 3
\* Number of distinct file paths.
NumPaths == 2
\* Number of distinct contents of a file's first block.
NumBlocks == 2
\* Number of distinct KDF seeds.
NumSeeds == 2
\* Number of distinct non-empty composite keys.
NumKeys == 1
\* Number of distinct KDF descriptors (objects a database can be given).
NumKdfs == 2
\* Ticks of model time the 150 ms single-shot timer runs for.
TimerTicks == 2
\* Queued databaseFileChanged(true) invocations that may be pending.
MaxQueued == 1
\* markAsModified calls counted within one run of the timer.
MaxBurst == 3

DBs == 1..MaxDb
Uuids == 1..MaxUuid
Paths == 1..NumPaths
Blocks == 1..NumBlocks
Seeds == 1..NumSeeds
Kdfs == 1..NumKdfs

\* Entries, ordinary groups, recycle-bin groups that can be created, tags.
NumEntries == 2
NumGroups == 2
MaxBins == 2
NumTags == 2

\* ------------------------------------------------------------- values
\* The null QUuid, the empty QString path, the empty QByteArray.
NullUuid == 0
NoPath == 0
EmptyBytes == 0
\* No Database (nullptr).
NoDb == 0

\* Composite keys: the null pointer, a composite key without sub-keys
\* (isEmpty()), and the non-empty composite keys.
NullKey == 0
EmptyKey == 1
RealKeys == 2..(NumKeys + 1)
Keys == {NullKey, EmptyKey} \cup RealKeys

\* Files: absent, shorter than kFileBlockToHashSizeBytes, or at least that
\* long with first block blk.
NoFile == [exists |-> FALSE, full |-> FALSE, blk |-> 0]
ShortFile == [exists |-> TRUE, full |-> FALSE, blk |-> 0]
FullFile(b) == [exists |-> TRUE, full |-> TRUE, blk |-> b]
FileContents == {NoFile, ShortFile} \cup {FullFile(b) : b \in Blocks}

\* QCryptographicHash::hash(block, Md5): injective on the blocks of the
\* model and never the empty byte array.
Md5(b) == b + NumBlocks

\* CompositeKey::transform(kdf): a non-empty byte string determined by the
\* key, the KDF descriptor and the seed the descriptor holds.
Transform(k, kdf, seed) == ((((k * NumKdfs) + (kdf - 1)) * (NumSeeds + 1))) + seed

\* The tree.  Nodes are numbers: the root group, the ordinary groups, the
\* groups createRecycleBin makes.  NoGroup is the null pointer and the parent
\* of a group or entry that is destroyed or was never made.
Root == 0
NoGroup == 0 - 1
Entries == 1 .. NumEntries
Groups == 1 .. NumGroups
Bins == (NumGroups + 1) .. (NumGroups + MaxBins)
Tags == 1 .. NumTags
NoEntry == [group |-> NoGroup, tags |-> {}]

\* new Group(): a root group with nothing below it.
EmptyTree ==
    [entry |-> [e \in Entries |-> NoEntry],
     parent |-> [g \in Groups \cup Bins |-> NoGroup]]

\* Metadata after init(): the recycle bin enabled, no bin group.
InitMetadata == [recycleBinEnabled |-> TRUE, recycleBin |-> NoGroup]

\* Number of entries of a log that are the signal sig.
RECURSIVE Count(_, _)
Count(log, sig) ==
    IF log = << >> THEN 0
    ELSE (IF Head(log).sig = sig THEN 1 ELSE 0) + Count(Tail(log), sig)

VARIABLES
    db,         \* db[d]: the state of Database object d
    s_uuidMap,  \* the static registry: uuid -> Database (NoDb: no entry)
    nextUuid,   \* the next identifier QUuid::createUuid returns
    disk,       \* disk[p]: the file at path p
    backupFile, \* the file at the backup destination
    burst,      \* burst[d]: the client's markAsModified calls while d's timer runs
    ret         \* the last step: which call, on which object, what it returned

vars == <<db, s_uuidMap, nextUuid, disk, backupFile, burst, ret>>

\* ------------------------------------------------------------- signals
\* emit sig: the object's log of the current handler gets the signal, with
\* the flags an observer connected to it would read at that moment.
emit(s, sig) ==
    [s EXCEPT !.log = Append(@, [sig |-> sig,
                                 modified |-> s.m_modified,
                                 hash |-> s.m_fileBlockHash])]

\* A call on the file watcher, logged like a signal.
watcherCall(s, what) ==
    [s EXCEPT !.log = Append(@, [sig |-> what,
                                 modified |-> s.m_modified,
                                 hash |-> s.m_fileBlockHash])]

\* FileWatcher::start / stop / pause / resume.  Of the watcher's own state
\* the model keeps whether it watches a file.
watcherStart(s) ==
    watcherCall([s EXCEPT !.watching = TRUE], "watcher.start")

watcherStop(s) ==
    watcherCall([s EXCEPT !.watching = FALSE], "watcher.stop")

watcherPause(s) == watcherCall(s, "watcher.pause")

watcherResume(s) == watcherCall(s, "watcher.resume")

\* ------------------------------------------------- modification tracker
\* QMetaObject::invokeMethod(&m_modifiedTimer, "start", 150) on the owner
\* thread: the single-shot timer runs for TimerTicks ticks.
startModifiedTimer(s) == [s EXCEPT !.m_modifiedTimer = TimerTicks]

stopModifiedTimer(s) == [s EXCEPT !.m_modifiedTimer = 0]

modifiedSignalEnabled(s) == s.m_emitModified

\* setEmitModified on the owner thread: a change emits emitModifiedChanged,
\* and the constructor's hook stops the timer when the value is false.
setEmitModified(s, value) ==
    IF s.m_emitModified = value THEN s
    ELSE LET t == [s EXCEPT !.m_emitModified = value]
         IN  IF ~value THEN stopModifiedTimer(t) ELSE t

\* setEmitModified on the save worker: the hook is connected with the
\* Database as context object, so its call is posted to the owner thread.
setEmitModifiedWorker(s, value) ==
    IF s.m_emitModified = value THEN s
    ELSE [s EXCEPT !.m_emitModified = value,
                   !.stopPosted = IF ~value THEN TRUE ELSE @]

\* A markAsModified that restarts a running timer: not what the code does.
markAsModified_rearm(s) ==
    LET t == [s EXCEPT !.m_modified = TRUE]
    IN  IF modifiedSignalEnabled(t) THEN startModifiedTimer(t) ELSE t

\* Database::markAsModified.
markAsModified(s) ==
    LET t == [s EXCEPT !.m_modified = TRUE]
    IN  IF modifiedSignalEnabled(t) /\ t.m_modifiedTimer = 0
        THEN startModifiedTimer(t)
        ELSE t

\* A markAsClean that announces every call: not what the code does.
markAsClean_always(s) ==
    emit([stopModifiedTimer([s EXCEPT !.m_modified = FALSE])
            EXCEPT !.m_hasNonDataChange = FALSE],
         "databaseSaved")

\* Database::markAsClean.
markAsClean(s) ==
    LET emitSignal == s.m_modified
        t == [stopModifiedTimer([s EXCEPT !.m_modified = FALSE])
                EXCEPT !.m_hasNonDataChange = FALSE]
    IN  IF emitSignal THEN emit(t, "databaseSaved") ELSE t

\* A markNonDataChange that also marks the database modified: not what the
\* code does.
markNonDataChange_marks(s) ==
    emit(markAsModified([s EXCEPT !.m_hasNonDataChange = TRUE]),
         "databaseNonDataChanged")

\* Database::markNonDataChange.
markNonDataChange(s) ==
    emit([s EXCEPT !.m_hasNonDataChange = TRUE], "databaseNonDataChanged")

\* The timer's timeout slot: emits modified when signaling is enabled.
emitModified(s) ==
    IF s.m_emitModified THEN emit(s, "modified") ELSE s

\* ------------------------------------------------------------- derived views
\* A count of the recomputations that leaves out those after a save: not
\* what the code does.
commonUsernamesUpdates_openOnly(log) == Count(log, "databaseOpened")

\* The constructor connects databaseOpened and databaseSaved to
\* updateCommonUsernames: the number of times a handler with this log
\* recomputed the list.
commonUsernamesUpdates(log) ==
    Count(log, "databaseOpened") + Count(log, "databaseSaved")

\* ------------------------------------------------------------- key state
isInitialized(s) == s.key # NullKey /\ s.key # EmptyKey /\ s.hasRoot

\* DatabaseData::resetKeys: all key-derived state zeroed.
resetKeys(s) == [s EXCEPT !.key = NullKey, !.transformedDatabaseKey = EmptyBytes]

\* DatabaseData::clear: the keys reset, the file path cleared.
clearData(s) == [resetKeys(s) EXCEPT !.filePath = NoPath]

\* setRootGroup: a modified, initialized database is discarded; the group
\* becomes the root.
setRootGroup(s) ==
    LET t == IF isInitialized(s) /\ s.m_modified
             THEN emit(s, "databaseDiscarded") ELSE s
    IN  [t EXCEPT !.hasRoot = TRUE, !.tree = EmptyTree]

\* A setFilePath that keeps the old path: not what the code does.
setFilePath_keep(s, filePath) == s

\* Database::setFilePath: a new path stops the watcher, ends the ignoring of
\* file changes and is announced.
setFilePath(s, filePath) ==
    IF filePath # s.filePath
    THEN emit([watcherStop([s EXCEPT !.filePath = filePath])
                 EXCEPT !.m_ignoreFileChangesUntilSaved = FALSE],
              "filePathChanged")
    ELSE s

setIgnoreFileChangesUntilSaved(s, ignore) ==
    IF s.m_ignoreFileChangesUntilSaved # ignore
    THEN LET t == [s EXCEPT !.m_ignoreFileChangesUntilSaved = ignore]
         IN  IF ignore THEN watcherPause(t) ELSE watcherResume(t)
    ELSE s

\* ------------------------------------------------------------- tree
\* Metadata::clear.
metadataClear(s) == [s EXCEPT !.metadata = InitMetadata]

\* The group g is the group anc or lies below it.
RECURSIVE inSubtree(_, _, _)
inSubtree(tree, g, anc) ==
    \/ g = anc
    \/ /\ g \in Groups \cup Bins
       /\ tree.parent[g] # NoGroup
       /\ inSubtree(tree, tree.parent[g], anc)

\* Group::entriesRecursive of the root group: every entry of the tree.
entriesRecursive(s) == {e \in Entries : s.tree.entry[e].group # NoGroup}

\* Group::isRecycled / Entry::isRecycled: the metadata's recycle bin is among
\* the ancestors.
Group_isRecycled(s, g) ==
    s.metadata.recycleBin # NoGroup /\ inSubtree(s.tree, g, s.metadata.recycleBin)

Entry_isRecycled(s, e) ==
    s.tree.entry[e].group # NoGroup /\ Group_isRecycled(s, s.tree.entry[e].group)

\* Entry::removeTag: the entry loses the tag; a change of the entry marks the
\* database modified.
Entry_removeTag(s, e, tag) ==
    IF tag \in s.tree.entry[e].tags
    THEN markAsModified([s EXCEPT !.tree.entry[e].tags = @ \ {tag}])
    ELSE s

\* The loop of Database::removeTag over the entries numbered up to n.
RECURSIVE removeTagUpTo(_, _, _)
removeTagUpTo(s, tag, n) ==
    IF n = 0 THEN s
    ELSE LET t == removeTagUpTo(s, tag, n - 1)
         IN  IF n \in entriesRecursive(s) THEN Entry_removeTag(t, n, tag) ELSE t

\* Database::removeTag.
removeTag(s, tag) ==
    IF ~s.hasRoot THEN s ELSE removeTagUpTo(s, tag, NumEntries)

\* Entry::setGroup and Group::setParent: the item moves; a move marks the
\* database modified.
Entry_setGroup(s, e, g) ==
    IF s.tree.entry[e].group = g THEN s
    ELSE markAsModified([s EXCEPT !.tree.entry[e].group = g])

Group_setParent(s, g, parent) ==
    IF s.tree.parent[g] = parent THEN s
    ELSE markAsModified([s EXCEPT !.tree.parent[g] = parent])

\* delete entry.
Entry_delete(s, e) == markAsModified([s EXCEPT !.tree.entry[e] = NoEntry])

\* delete group: the group goes with everything below it, and a metadata
\* pointer to a destroyed group becomes null.
Group_delete(s, g) ==
    LET tree == s.tree
        gone == {h \in Groups \cup Bins : inSubtree(tree, h, g)}
        t == [entry |-> [e \in Entries |->
                           IF tree.entry[e].group \in gone THEN NoEntry
                           ELSE tree.entry[e]],
              parent |-> [h \in Groups \cup Bins |->
                            IF h \in gone THEN NoGroup ELSE tree.parent[h]]]
    IN  markAsModified([s EXCEPT !.tree = t,
                                 !.metadata.recycleBin =
                                     IF @ \in gone THEN NoGroup ELSE @])

\* The group new Group() makes in createRecycleBin.
NewBin(s) ==
    IF \E b \in Bins : s.tree.parent[b] = NoGroup
    THEN CHOOSE b \in Bins : /\ s.tree.parent[b] = NoGroup
                             /\ \A c \in Bins : s.tree.parent[c] = NoGroup => b <= c
    ELSE NoGroup

\* A createRecycleBin that does not register the group: not what the code
\* does.
createRecycleBin_unregistered(s) == Group_setParent(s, NewBin(s), Root)

\* Database::createRecycleBin.
createRecycleBin(s) ==
    LET recycleBin == NewBin(s)
        s1 == Group_setParent(s, recycleBin, Root)
    IN  markAsModified([s1 EXCEPT !.metadata.recycleBin = recycleBin])

\* Database::recycleEntry.
recycleEntry(s, entry) ==
    IF s.metadata.recycleBinEnabled
    THEN LET s1 == IF s.metadata.recycleBin = NoGroup THEN createRecycleBin(s) ELSE s
         IN  Entry_setGroup(s1, entry, s1.metadata.recycleBin)
    ELSE Entry_delete(s, entry)

\* Database::recycleGroup.
recycleGroup(s, group) ==
    IF s.metadata.recycleBinEnabled
    THEN LET s1 == IF s.metadata.recycleBin = NoGroup THEN createRecycleBin(s) ELSE s
         IN  Group_setParent(s1, group, s1.metadata.recycleBin)
    ELSE Group_delete(s, group)

\* The loops of Database::emptyRecycleBin: the direct entries numbered up to
\* n, the direct subgroups numbered up to n.
RECURSIVE deleteEntriesUpTo(_, _, _)
deleteEntriesUpTo(s, subEntries, n) ==
    IF n = 0 THEN s
    ELSE LET t == deleteEntriesUpTo(s, subEntries, n - 1)
         IN  IF n \in subEntries THEN Entry_delete(t, n) ELSE t

RECURSIVE deleteGroupsUpTo(_, _, _)
deleteGroupsUpTo(s, subGroups, n) ==
    IF n = 0 THEN s
    ELSE LET t == deleteGroupsUpTo(s, subGroups, n - 1)
         IN  IF n \in subGroups THEN Group_delete(t, n) ELSE t

\* Database::emptyRecycleBin.
emptyRecycleBin(s) ==
    IF s.metadata.recycleBinEnabled /\ s.metadata.recycleBin # NoGroup
    THEN LET bin == s.metadata.recycleBin
             subEntries == {e \in Entries : s.tree.entry[e].group = bin}
             s1 == deleteEntriesUpTo(s, subEntries, NumEntries)
             subGroups == {g \in Groups \cup Bins : s1.tree.parent[g] = bin}
         IN  deleteGroupsUpTo(s1, subGroups, NumGroups + MaxBins)
    ELSE s

\* ------------------------------------------------------------- registry
\* s_uuidMap.insert(uuid, this).
uuidMapInsert(map, uuid, d) == [map EXCEPT ![uuid] = d]

\* A release that leaves the registry entry: not what the code does.
uuidMapRemove_none(map, uuid) == map

\* s_uuidMap.remove(uuid).
uuidMapRemove(map, uuid) ==
    IF uuid \in DOMAIN map THEN [map EXCEPT ![uuid] = NoDb] ELSE map

databaseByUuid(map, uuid) ==
    IF uuid \in DOMAIN map THEN map[uuid] ELSE NoDb

\* ------------------------------------------------------------- objects
\* The save a saveAs call runs: the call's arguments, where performSave
\* stands, and its result and error string.
IdleJob ==
    [phase |-> "idle", filePath |-> NoPath, action |-> "none",
     backup |-> "null", ok |-> FALSE, err |-> "none"]

\* A slot holding no object.
Unborn ==
    [life |-> "unborn", m_uuid |-> NullUuid,
     m_modified |-> FALSE, m_hasNonDataChange |-> FALSE,
     m_emitModified |-> TRUE, m_modifiedTimer |-> 0, stopPosted |-> FALSE,
     filePath |-> NoPath, m_fileBlockHash |-> EmptyBytes,
     m_ignoreFileChangesUntilSaved |-> FALSE,
     key |-> NullKey, kdf |-> 1, kdfSeed |-> 1, formatVersion |-> 0,
     transformedDatabaseKey |-> EmptyBytes,
     hasRoot |-> FALSE, tree |-> EmptyTree, metadata |-> InitMetadata,
     watching |-> FALSE,
     m_saveMutex |-> FALSE, job |-> IdleJob, queuedFileChanged |-> 0,
     log |-> << >>]

\* Database::Database(): the object after construction with identifier uuid.
Constructed(uuid) ==
    LET s0 == [Unborn EXCEPT !.life = "live", !.m_uuid = uuid]
        s1 == setEmitModified(s0, FALSE)
        s2 == setRootGroup(s1)
        s3 == [s2 EXCEPT !.m_modified = FALSE]
    IN  setEmitModified(s3, TRUE)

\* A releaseData that replaces the root group before it clears the modified
\* flag and the data: not what the code does.
releaseData_late(s) ==
    LET s1 == IF s.m_modified THEN emit(s, "databaseDiscarded") ELSE s
        s2 == setEmitModified(s1, FALSE)
        s3 == [s2 EXCEPT !.m_uuid = NullUuid]
        s4 == [setRootGroup(s3) EXCEPT !.m_modified = FALSE]
        s5 == metadataClear(clearData(s4))
        s6 == watcherStop(s5)
    IN  [s6 EXCEPT !.m_fileBlockHash = EmptyBytes,
                   !.m_ignoreFileChangesUntilSaved = FALSE]

\* Database::releaseData in the order of the code, the object's part (the
\* registry's is in the action).
releaseData(s) ==
    LET s1 == IF s.m_modified THEN emit(s, "databaseDiscarded") ELSE s
        s2 == [setEmitModified(s1, FALSE) EXCEPT !.m_modified = FALSE]
        s3 == [s2 EXCEPT !.m_uuid = NullUuid]
        s4 == metadataClear(clearData(s3))
        s5 == setRootGroup(s4)
        s6 == watcherStop(s5)
    IN  [s6 EXCEPT !.m_fileBlockHash = EmptyBytes,
                   !.m_ignoreFileChangesUntilSaved = FALSE]

\* ------------------------------------------------------------- observation
\* What a step was: the object, the operation, whether the step entered a
\* call and whether the call returned in it, the result, the error string,
\* and the markAsModified calls the running timer had seen before the step.
Ret(d, op, entry, returned, ok, err) ==
    [d |-> d, op |-> op, entry |-> entry, returned |-> returned, ok |-> ok,
     err |-> err, n |-> IF d \in DBs THEN burst[d] ELSE 0]

\* A step of no Database object.
NoRet ==
    [d |-> NoDb, op |-> "none", entry |-> FALSE, returned |-> FALSE, ok |-> TRUE,
     err |-> "none", n |-> 0]

\* The count of the client's markAsModified calls during the current run of
\* each timer, after a step on d that was such a call (marked) or was not.
Window(d, marked) ==
    burst' = [e \in DBs |->
                IF db'[e].m_modifiedTimer = 0 THEN 0
                ELSE IF e = d /\ marked /\ burst[e] < MaxBurst THEN burst[e] + 1
                ELSE burst[e]]

\* A handler starts with an empty log.
Fresh(s) == [s EXCEPT !.log = << >>]

Usable(d) == db[d].life # "unborn"

Idle(d) == db[d].job.phase = "idle"

\* ------------------------------------------------------------- lifecycle
Construct(d) ==
    /\ db[d].life = "unborn"
    /\ nextUuid <= MaxUuid
    /\ \E filePath \in {NoPath} \cup Paths :
         LET s == setFilePath(Constructed(nextUuid), filePath)
         IN  /\ db' = [db EXCEPT ![d] = s]
             /\ ret' = Ret(d, "Database", TRUE, TRUE, TRUE, "none")
    /\ Window(d, FALSE)
    /\ s_uuidMap' = uuidMapInsert(s_uuidMap, nextUuid, d)
    /\ nextUuid' = nextUuid + 1
    /\ UNCHANGED <<disk, backupFile>>

\* A save mutex its holder's thread can lock again: not what the code does.
lockable_recursive(s) == TRUE

\* QMutexLocker locker(&m_saveMutex) goes on when the mutex is free.
lockable(s) == ~s.m_saveMutex

ReleaseData(d) ==
    /\ Usable(d)
    /\ lockable(db[d])
    /\ db' = [db EXCEPT ![d] = releaseData(Fresh(@))]
    /\ s_uuidMap' = uuidMapRemove(s_uuidMap, db[d].m_uuid)
    /\ ret' = Ret(d, "releaseData", TRUE, TRUE, TRUE, "none")
    /\ Window(d, FALSE)
    /\ UNCHANGED <<nextUuid, disk, backupFile>>

\* releaseData called while the mutex is held: the caller waits in the
\* QMutexLocker and nothing of the object changes.
ReleaseDataBlocked(d) ==
    /\ Usable(d)
    /\ ~lockable(db[d])
    /\ ret' = Ret(d, "releaseData", TRUE, FALSE, TRUE, "none")
    /\ ret' # ret
    /\ UNCHANGED <<db, s_uuidMap, nextUuid, disk, backupFile, burst>>

\* ~Database: releaseData, then the object is gone.
Destroy(d) ==
    /\ Usable(d)
    /\ lockable(db[d])
    /\ db' = [db EXCEPT ![d] = Unborn]
    /\ s_uuidMap' = uuidMapRemove(s_uuidMap, db[d].m_uuid)
    /\ ret' = Ret(d, "~Database", TRUE, TRUE, TRUE, "none")
    /\ Window(d, FALSE)
    /\ UNCHANGED <<nextUuid, disk, backupFile>>

\* ------------------------------------------------------------- tracker
MarkAsModified(d) ==
    /\ Usable(d)
    /\ burst[d] < MaxBurst
    /\ db' = [db EXCEPT ![d] = markAsModified(Fresh(@))]
    /\ ret' = Ret(d, "markAsModified", TRUE, TRUE, TRUE, "none")
    /\ Window(d, TRUE)
    /\ UNCHANGED <<s_uuidMap, nextUuid, disk, backupFile>>

MarkAsClean(d) ==
    /\ Usable(d)
    /\ db' = [db EXCEPT ![d] = markAsClean(Fresh(@))]
    /\ ret' = Ret(d, "markAsClean", TRUE, TRUE, TRUE, "none")
    /\ Window(d, FALSE)
    /\ UNCHANGED <<s_uuidMap, nextUuid, disk, backupFile>>

MarkNonDataChange(d) ==
    /\ Usable(d)
    /\ db' = [db EXCEPT ![d] = markNonDataChange(Fresh(@))]
    /\ ret' = Ret(d, "markNonDataChange", TRUE, TRUE, TRUE, "none")
    /\ Window(d, FALSE)
    /\ UNCHANGED <<s_uuidMap, nextUuid, disk, backupFile>>

SetEmitModified(d) ==
    /\ Usable(d)
    /\ \E value \in BOOLEAN :
         db' = [db EXCEPT ![d] = setEmitModified(Fresh(@), value)]
    /\ ret' = Ret(d, "setEmitModified", TRUE, TRUE, TRUE, "none")
    /\ Window(d, FALSE)
    /\ UNCHANGED <<s_uuidMap, nextUuid, disk, backupFile>>

\* Time passes for the running timer; at its end the timeout slot runs.
Tick(d) ==
    /\ Usable(d)
    /\ db[d].m_modifiedTimer > 0
    /\ LET s == Fresh(db[d])
           t == [s EXCEPT !.m_modifiedTimer = @ - 1]
       IN  IF t.m_modifiedTimer = 0
           THEN /\ db' = [db EXCEPT ![d] = emitModified(t)]
                /\ ret' = Ret(d, "timeout", FALSE, FALSE, TRUE, "none")
           ELSE /\ db' = [db EXCEPT ![d] = t]
                /\ ret' = Ret(d, "tick", FALSE, FALSE, TRUE, "none")
    /\ Window(d, FALSE)
    /\ UNCHANGED <<s_uuidMap, nextUuid, disk, backupFile>>

\* ------------------------------------------------------------- setKey
\* Database::setKey.  newSeed is what Kdf::randomizeSeed draws, transformOk
\* whether CompositeKey::transform succeeds.  Returns the object and the
\* call's result.  updateChangedTime writes the time of the key change into
\* the metadata, a plain field of it that is not part of the object's record.
setKey(s, key, updateChangedTime, updateTransformSalt, transformKey, newSeed, transformOk) ==
    IF key = NullKey THEN [s |-> resetKeys(s), ok |-> TRUE]
    ELSE
    LET s1 == IF updateTransformSalt THEN [s EXCEPT !.kdfSeed = newSeed] ELSE s
        oldTransformedDatabaseKey ==
            IF s1.key # NullKey /\ s1.key # EmptyKey
            THEN s1.transformedDatabaseKey ELSE EmptyBytes
        transformedDatabaseKey ==
            IF ~transformKey THEN oldTransformedDatabaseKey
            ELSE Transform(key, s1.kdf, s1.kdfSeed)
    IN  IF transformKey /\ ~transformOk THEN [s |-> s1, ok |-> FALSE]
        ELSE
        LET s2 == [s1 EXCEPT !.key = key,
                             !.transformedDatabaseKey =
                                 IF transformedDatabaseKey # EmptyBytes
                                 THEN transformedDatabaseKey ELSE @]
        IN  [s |-> IF oldTransformedDatabaseKey # s2.transformedDatabaseKey
                   THEN markAsModified(s2) ELSE s2,
             ok |-> TRUE]

\* ------------------------------------------------------------- changeKdf
\* KeePass2Writer::kdbxVersionRequired(db, ignoreCurrent, ignoreKdf): the
\* lowest format version that can hold the database; the first descriptor
\* is the KDF of the version 3 format, the others need version 4.
kdbxVersionRequired(s, ignoreCurrent, ignoreKdf) ==
    IF ~ignoreCurrent /\ s.formatVersion >= 4 THEN s.formatVersion
    ELSE IF ignoreKdf \/ s.kdf = 1 THEN 3
    ELSE 4

\* A setKdf that leaves the format version: not what the code does.
setKdf_keepVersion(s, kdf, seed) ==
    [s EXCEPT !.kdf = kdf, !.kdfSeed = seed]

\* Database::setKdf: the descriptor (never null here, with the seed it
\* holds) is installed and the format version follows it.
setKdf(s, kdf, seed) ==
    LET t == [s EXCEPT !.kdf = kdf, !.kdfSeed = seed]
    IN  [t EXCEPT !.formatVersion = kdbxVersionRequired(t, TRUE, FALSE)]

\* Database::changeKdf(kdf).  newSeed is what kdf->randomizeSeed draws; when
\* kdf is the descriptor the database already holds, the seed drawn is the
\* database's at once.  Returns the object and the call's result.
changeKdf(s, kdf, newSeed, transformOk) ==
    LET s1 == IF kdf = s.kdf THEN [s EXCEPT !.kdfSeed = newSeed] ELSE s
        s2 == IF s1.key = NullKey THEN [s1 EXCEPT !.key = EmptyKey] ELSE s1
    IN  IF ~transformOk THEN [s |-> s2, ok |-> FALSE]
        ELSE
        LET s3 == setKdf(s2, kdf, newSeed)
            s4 == [s3 EXCEPT !.transformedDatabaseKey =
                                 Transform(s2.key, kdf, newSeed)]
        IN  [s |-> markAsModified(s4), ok |-> TRUE]

\* ------------------------------------------------------------- open
\* Database::open(filePath, key, error) on the file found at filePath.
\* io: whether QFile::open and QFile::peek work; readerOk and fileSeed: what
\* KeePass2Reader::readDatabase makes of the file.
open(s, file, filePath, key, io, readerOk, fileSeed) ==
    IF ~file.exists THEN [s |-> s, ok |-> FALSE, err |-> "FileNotExist"]
    ELSE IF io = "openfail" THEN [s |-> s, ok |-> FALSE, err |-> "UnableToOpen"]
    ELSE
    LET s1 == setEmitModified(s, FALSE)
        s2 == [s1 EXCEPT !.m_fileBlockHash = EmptyBytes]
        peeked == file.full /\ io # "shortread"
        s3 == IF peeked THEN [s2 EXCEPT !.m_fileBlockHash = Md5(file.blk)] ELSE s2
    IN  IF ~peeked /\ file.full THEN [s |-> s3, ok |-> FALSE, err |-> "ReadError"]
        ELSE IF ~readerOk THEN [s |-> s3, ok |-> FALSE, err |-> "ReaderError"]
        ELSE
        LET \* The reader installs the KDF of the header and, given a key,
            \* the key transformed under it.
            s4 == [s3 EXCEPT !.kdfSeed = fileSeed]
            s5 == IF key = NullKey THEN s4
                  ELSE setKey(s4, key, FALSE, FALSE, TRUE, fileSeed, TRUE).s
            s6 == markAsClean(setFilePath(s5, filePath))
            s7 == watcherStart(emit(s6, "databaseOpened"))
        IN  [s |-> setEmitModified(s7, TRUE), ok |-> TRUE, err |-> "none"]

\* ------------------------------------------------------------- save
\* An isSaving that never sees the mutex held: not what the code does.
isSaving_never(s) == FALSE

\* isSaving: tryLock on the save mutex fails.
isSaving(s) == s.m_saveMutex

\* Preconditions without the external-change check: not what the code does.
saveAsCheck_blind(s, file, filePath, io) ==
    IF isSaving(s) THEN "Busy"
    ELSE IF ~isInitialized(s) THEN "NotInitialized"
    ELSE "pass"

\* Preconditions that look at the key before the mutex: not what the code
\* does.
saveAsCheck_uninitFirst(s, file, filePath, io) ==
    IF ~isInitialized(s) THEN "NotInitialized"
    ELSE IF isSaving(s) THEN "Busy"
    ELSE IF /\ ~s.m_ignoreFileChangesUntilSaved
            /\ s.m_fileBlockHash # EmptyBytes
            /\ filePath = s.filePath
            /\ file.exists
    THEN IF io = "openfail" THEN "UnableToOpen"
         ELSE IF file.full /\ io # "shortread"
              THEN IF s.m_fileBlockHash # Md5(file.blk) THEN "Unmerged" ELSE "pass"
              ELSE IF file.full THEN "ReadError" ELSE "pass"
    ELSE "pass"

\* The preconditions of saveAs, in the order of the code: what the call is
\* refused with, or "pass".  file is the file at filePath, io whether
\* QFile::open and QFile::read work.
saveAsCheck(s, file, filePath, io) ==
    IF isSaving(s) THEN "Busy"
    ELSE IF ~isInitialized(s) THEN "NotInitialized"
    ELSE IF /\ ~s.m_ignoreFileChangesUntilSaved
            /\ s.m_fileBlockHash # EmptyBytes
            /\ filePath = s.filePath
            /\ file.exists
    THEN IF io = "openfail" THEN "UnableToOpen"
         ELSE IF file.full /\ io # "shortread"
              THEN IF s.m_fileBlockHash # Md5(file.blk) THEN "Unmerged" ELSE "pass"
              ELSE IF file.full THEN "ReadError" ELSE "pass"
    ELSE "pass"

\* m_metadata->customData()->set(RandomSlug, ...): the custom data of the
\* metadata changes (the slug is random), the metadata signals modified, and
\* the constructor has connected that signal to markAsModified.
setRandomSlug(s) == markAsModified(s)

\* saveAs up to the start of performSave: the object when the call is
\* refused (refusal), or with the watcher stopped, the random slug written,
\* the mutex taken and the save handed to the worker.
saveAsBegin(s, filePath, action, backup, refusal) ==
    IF refusal = "Unmerged"
    THEN [s EXCEPT !.queuedFileChanged = @ + 1]
    ELSE IF refusal # "pass" THEN s
    ELSE [setRandomSlug(watcherStop(s)) EXCEPT
            !.m_saveMutex = TRUE,
            !.job = [IdleJob EXCEPT !.phase = "queued",
                                    !.filePath = filePath, !.action = action,
                                    !.backup = backup]]

\* A saveAs that watches the file again when performSave failed: not what
\* the code does.
saveAsEnd_rewatch(s, filePath, ok) ==
    IF ok
    THEN watcherStart([markAsClean(setFilePath(s, filePath))
                         EXCEPT !.m_ignoreFileChangesUntilSaved = FALSE])
    ELSE watcherStart(markAsModified(s))

\* A saveAs that leaves ignoreFileChangesUntilSaved set after a successful
\* save: not what the code does.
saveAsEnd_keepIgnore(s, filePath, ok) ==
    IF ok
    THEN watcherStart(markAsClean(setFilePath(s, filePath)))
    ELSE markAsModified(s)

\* saveAs after performSave returned ok.
saveAsEnd(s, filePath, ok) ==
    IF ok
    THEN watcherStart([markAsClean(setFilePath(s, filePath))
                         EXCEPT !.m_ignoreFileChangesUntilSaved = FALSE])
    ELSE markAsModified(s)

\* A call of one of the object's own functions, logged like a signal.
call(s, what) ==
    [s EXCEPT !.log = Append(@, [sig |-> what,
                                 modified |-> s.m_modified,
                                 hash |-> s.m_fileBlockHash])]

\* A performSave that backs up only to a non-empty path: not what the code
\* does.
backupRequested_nonEmpty(backupFilePath) == backupFilePath = "path"

\* performSave calls backupDatabase when backupFilePath is not null.
backupRequested(backupFilePath) == backupFilePath # "null"

\* backupDatabase(filePath, destination): the backup file afterwards.
\* copyOk: whether creating the directory and copying work.
backupDatabase(file, old, destination, copyOk) ==
    IF destination = "empty" THEN old
    ELSE IF file.exists /\ copyOk THEN file ELSE NoFile

\* A restore that reports success whatever happened: not what the code does.
restoreDatabase_sure(backup, copyOk, permsOk) ==
    IF backup.exists /\ copyOk
    THEN [file |-> backup, ok |-> TRUE]
    ELSE [file |-> NoFile, ok |-> TRUE]

\* restoreDatabase(filePath, backup): the target afterwards (removed by the
\* TempFile strategy before) and the result.
restoreDatabase(backup, copyOk, permsOk) ==
    IF backup.exists
    THEN IF copyOk THEN [file |-> backup, ok |-> permsOk]
         ELSE [file |-> NoFile, ok |-> FALSE]
    ELSE [file |-> NoFile, ok |-> FALSE]

\* The transformed key writeDatabase captures before the codec writes, for
\* its check afterwards: captured when the key has no sub-keys.
oldTransformedKey(s) ==
    IF s.key = EmptyKey THEN s.transformedDatabaseKey ELSE EmptyBytes

\* The check of writeDatabase after the codec has written: old is the key
\* captured before, s the object after.
keyTransformed(old, s) ==
    /\ s.transformedDatabaseKey # EmptyBytes
    /\ s.transformedDatabaseKey # old

\* HashingStream::hashingResult after the block b went through the sink.
hashingResult(b) == Md5(b)

\* A performSave that keeps the old hash: not what the code does.
storeHash_skip(s, b) == s

\* performSave stores the new hash once the file is in place.
storeHash(s, b) == [s EXCEPT !.m_fileBlockHash = hashingResult(b)]

\* ------------------------------------------------------------- the calls
\* keys, flags, transformOks: the arguments the specification calls setKey
\* with (flags: the values of each of the three boolean arguments) and the
\* outcomes of the transform it considers.
SetKey(d, keys, flags, transformOks) ==
    /\ Usable(d)
    /\ \E key \in keys, updateChangedTime \in flags, updateTransformSalt \in flags,
          transformKey \in flags, newSeed \in Seeds, transformOk \in transformOks :
         LET r == setKey(Fresh(db[d]), key, updateChangedTime, updateTransformSalt,
                         transformKey, newSeed, transformOk)
             first(S) == CHOOSE x \in S : TRUE
         IN  \* each outcome once: arguments that are not read are fixed
             /\ updateChangedTime = first(flags)
             /\ key = NullKey =>
                    /\ updateTransformSalt = first(flags)
                    /\ transformKey = first(flags)
             /\ (key = NullKey \/ ~updateTransformSalt) => newSeed = 1
             /\ (key = NullKey \/ ~transformKey) => transformOk = first(transformOks)
             /\ db' = [db EXCEPT ![d] = r.s]
             /\ ret' = Ret(d, "setKey", TRUE, TRUE, r.ok,
                           IF r.ok THEN "none" ELSE "KeyError")
             /\ Window(d, FALSE)
    /\ UNCHANGED <<s_uuidMap, nextUuid, disk, backupFile>>

\* kdfs, transformOks: the descriptors the specification calls changeKdf
\* with and the outcomes of the transform it considers.
ChangeKdf(d, kdfs, transformOks) ==
    /\ Usable(d) /\ Idle(d)
    /\ \E kdf \in kdfs, newSeed \in Seeds, transformOk \in transformOks :
         LET r == changeKdf(Fresh(db[d]), kdf, newSeed, transformOk)
         IN  /\ db' = [db EXCEPT ![d] = r.s]
             /\ ret' = Ret(d, "changeKdf", TRUE, TRUE, r.ok,
                           IF r.ok THEN "none" ELSE "KeyError")
             /\ Window(d, FALSE)
    /\ UNCHANGED <<s_uuidMap, nextUuid, disk, backupFile>>

SetIgnoreFileChangesUntilSaved(d) ==
    /\ Usable(d)
    /\ \E ignore \in BOOLEAN :
         db' = [db EXCEPT ![d] = setIgnoreFileChangesUntilSaved(Fresh(@), ignore)]
    /\ ret' = Ret(d, "setIgnoreFileChangesUntilSaved", TRUE, TRUE, TRUE, "none")
    /\ Window(d, FALSE)
    /\ UNCHANGED <<s_uuidMap, nextUuid, disk, backupFile>>

\* open(key, error) opens the bound path; open(filePath, key, error) the
\* given one.  keys, ios, readerOks: the keys the specification opens with,
\* and the outcomes of the file operations and of the reader it considers.
Open(d, keys, ios, readerOks) ==
    /\ Usable(d) /\ Idle(d)
    /\ \E overload \in {"open(key)", "open(filePath,key)"}, path \in Paths,
          key \in keys, io \in ios, readerOk \in readerOks, fileSeed \in Seeds :
         LET s == Fresh(db[d])
             filePath == IF overload = "open(key)" THEN s.filePath ELSE path
             found == filePath # NoPath /\ disk[filePath].exists
         IN  \* each outcome once: arguments that are not read are fixed
             /\ overload = "open(key)" => path = 1
             /\ ~found => (io = "ok" /\ readerOk)
             /\ (~found \/ io # "ok" \/ ~readerOk) =>
                    (fileSeed = 1 /\ key = CHOOSE k \in keys : TRUE)
             /\ IF filePath = NoPath
                THEN /\ db' = [db EXCEPT ![d] = s]
                     /\ ret' = Ret(d, "open", TRUE, TRUE, FALSE, "none")
                ELSE LET r == open(s, disk[filePath], filePath, key, io, readerOk,
                                   fileSeed)
                     IN  /\ db' = [db EXCEPT ![d] = r.s]
                         /\ ret' = Ret(d, "open", TRUE, TRUE, r.ok, r.err)
    /\ Window(d, FALSE)
    /\ UNCHANGED <<s_uuidMap, nextUuid, disk, backupFile>>

\* save(action, backupFilePath, error) and saveAs(filePath, ...), from the
\* call to its refusal or to the start of performSave on the worker.
\* actions, backups, ios: the strategies and backup paths the specification
\* saves with, and the outcomes of reading the file it considers.
SaveBegin(d, actions, backups, ios) ==
    /\ Usable(d)
    /\ \E op \in {"save", "saveAs"}, path \in Paths,
          action \in actions, backup \in backups, io \in ios :
         LET s == Fresh(db[d])
             filePath == IF op = "save" THEN s.filePath ELSE path
             refusal == IF filePath = NoPath THEN "NotBound"
                        ELSE saveAsCheck(s, disk[filePath], filePath, io)
             \* the external-change check reads the file
             reads == /\ refusal \notin {"NotBound", "Busy", "NotInitialized"}
                      /\ saveAsCheck(s, disk[filePath], filePath, "openfail")
                             = "UnableToOpen"
         IN  \* each outcome once: arguments that are not read are fixed
             /\ op = "save" => path = 1
             /\ ~reads => io = CHOOSE i \in ios : TRUE
             /\ refusal # "pass" =>
                    /\ action = CHOOSE a \in actions : TRUE
                    /\ backup = CHOOSE p \in backups : TRUE
             /\ IF filePath = NoPath
                THEN /\ db' = [db EXCEPT ![d] = s]
                     /\ ret' = Ret(d, op, TRUE, TRUE, FALSE, "NotBound")
                ELSE LET t == saveAsBegin(s, filePath, action, backup, refusal)
                     IN
                      /\ refusal = "Unmerged" => s.queuedFileChanged < MaxQueued
                      /\ db' = [db EXCEPT ![d] = t]
                      /\ ret' = Ret(d, op, TRUE, refusal # "pass", FALSE,
                                    IF refusal = "pass" THEN "none" ELSE refusal)
    /\ Window(d, FALSE)
    /\ UNCHANGED <<s_uuidMap, nextUuid, disk, backupFile>>

\* performSave on the worker, first part: the backup, then the target (or
\* the staging file) and the hashing sink are opened and writeDatabase
\* suspends modification signaling.
PerformSaveOpen(d) ==
    /\ db[d].job.phase = "queued"
    /\ \E copyOk \in IF db[d].job.backup = "path" THEN BOOLEAN ELSE {TRUE},
          io \in {"ok", "openfail", "sinkfail"} :
         LET job == db[d].job
             s == IF backupRequested(job.backup)
                  THEN call(db[d], "backupDatabase") ELSE db[d]
             truncates == job.action = "DirectWrite" /\ io # "openfail"
             done(err) == [s EXCEPT !.job.phase = "done", !.job.ok = FALSE,
                                    !.job.err = err]
         IN  /\ backupFile' = IF backupRequested(job.backup)
                              THEN backupDatabase(disk[job.filePath], backupFile,
                                                  job.backup, copyOk)
                              ELSE backupFile
             /\ disk' = IF truncates
                        THEN [disk EXCEPT ![job.filePath] = ShortFile]
                        ELSE disk
             /\ db' = [db EXCEPT ![d] =
                         IF io = "openfail" THEN done("IoError")
                         ELSE IF io = "sinkfail" THEN done("none")
                         ELSE [setEmitModifiedWorker(s, FALSE)
                                 EXCEPT !.job.phase = "writing"]]
    /\ ret' = Ret(d, "performSave", FALSE, FALSE, TRUE, "none")
    /\ Window(d, FALSE)
    /\ UNCHANGED <<s_uuidMap, nextUuid>>

\* performSave on the worker, second part: the codec writes through the
\* sink, writeDatabase checks the key, and the strategy puts the file in
\* place.  codec: what KeePass2Writer did; b: the first block it wrote.
PerformSaveWrite(d) ==
    /\ db[d].job.phase = "writing"
    /\ \E codec \in {"error", "rotated", "stale"}, b \in Blocks,
          seed \in Seeds, partialFull \in BOOLEAN,
          moveOk \in IF db[d].job.action = "DirectWrite" THEN {TRUE} ELSE BOOLEAN,
          copyOk \in IF db[d].job.backup = "path" THEN BOOLEAN ELSE {TRUE},
          permsOk \in IF db[d].job.backup = "path" THEN BOOLEAN ELSE {TRUE} :
         LET s == db[d]
             job == s.job
             target == job.filePath
             \* writer.writeDatabase between setEmitModified(false) and (true)
             s1 == IF codec = "rotated"
                   THEN [s EXCEPT !.kdfSeed = seed,
                                  !.transformedDatabaseKey =
                                      Transform(s.key, s.kdf, seed)]
                   ELSE s
             s2 == setEmitModifiedWorker(s1, TRUE)
             writeOk == codec # "error" /\ keyTransformed(oldTransformedKey(s), s2)
             writeErr == IF codec = "error" THEN "CodecError" ELSE "KeyNotTransformed"
             restored == restoreDatabase(backupFile, copyOk, permsOk)
             done(t, ok, err) ==
                 [t EXCEPT !.job.phase = "done", !.job.ok = ok, !.job.err = err]
             stored == storeHash(s2, b)
         IN  /\ codec = "rotated" =>
                    Transform(s.key, s.kdf, seed) # s.transformedDatabaseKey
             \* each outcome once: choices that are not read are fixed
             /\ codec # "rotated" => seed = s.kdfSeed
             /\ (job.action # "DirectWrite" \/ codec # "error") => partialFull
             /\ (job.action # "DirectWrite" /\ ~writeOk) => b = 1
             /\ ~writeOk => (moveOk /\ copyOk /\ permsOk)
             /\ moveOk => (copyOk /\ permsOk)
             /\ ~copyOk => permsOk
             /\ IF ~writeOk
                THEN /\ db' = [db EXCEPT ![d] = done(s2, FALSE, writeErr)]
                     /\ disk' = IF job.action = "DirectWrite"
                                THEN [disk EXCEPT ![target] =
                                        IF codec = "error" /\ ~partialFull
                                        THEN ShortFile ELSE FullFile(b)]
                                ELSE disk
                ELSE IF job.action = "Atomic"
                THEN IF moveOk
                     THEN /\ db' = [db EXCEPT ![d] = done(stored, TRUE, job.err)]
                          /\ disk' = [disk EXCEPT ![target] = FullFile(b)]
                     ELSE /\ db' = [db EXCEPT ![d] = done(s2, FALSE, "IoError")]
                          /\ disk' = disk
                ELSE IF job.action = "TempFile"
                THEN IF moveOk
                     THEN /\ db' = [db EXCEPT ![d] = done(stored, TRUE, job.err)]
                          /\ disk' = [disk EXCEPT ![target] = FullFile(b)]
                     ELSE IF job.backup # "path"
                          THEN /\ db' = [db EXCEPT ![d] =
                                           done(s2, FALSE, "StagingPath")]
                               /\ disk' = [disk EXCEPT ![target] = NoFile]
                          ELSE /\ db' = [db EXCEPT ![d] =
                                           done(s2, FALSE,
                                                IF restored.ok THEN "IoError"
                                                ELSE "StagingPath")]
                               /\ disk' = [disk EXCEPT ![target] = restored.file]
                ELSE /\ db' = [db EXCEPT ![d] = done(stored, TRUE, job.err)]
                     /\ disk' = [disk EXCEPT ![target] = FullFile(b)]
    /\ ret' = Ret(d, "performSave", FALSE, FALSE, TRUE, "none")
    /\ Window(d, FALSE)
    /\ UNCHANGED <<s_uuidMap, nextUuid, backupFile>>

\* The owner thread, waiting in the event loop of the save, runs the posted
\* call of the hook that stops the timer.
DeliverStop(d) ==
    /\ db[d].stopPosted
    /\ db' = [db EXCEPT ![d] = [stopModifiedTimer(Fresh(@)) EXCEPT !.stopPosted = FALSE]]
    /\ ret' = Ret(d, "emitModifiedChanged", FALSE, FALSE, TRUE, "none")
    /\ Window(d, FALSE)
    /\ UNCHANGED <<s_uuidMap, nextUuid, disk, backupFile>>

\* saveAs after the worker finished: the calls posted by the worker have
\* run; the result is handled and the mutex released.
SaveEnd(d) ==
    /\ db[d].job.phase = "done"
    /\ ~db[d].stopPosted
    /\ LET s == Fresh(db[d])
           job == s.job
           t == saveAsEnd(s, job.filePath, job.ok)
       IN  /\ db' = [db EXCEPT ![d] = [t EXCEPT !.m_saveMutex = FALSE, !.job = IdleJob]]
           /\ ret' = Ret(d, "saveAs", FALSE, TRUE, job.ok, job.err)
           /\ Window(d, FALSE)
    /\ UNCHANGED <<s_uuidMap, nextUuid, disk, backupFile>>

\* The queued databaseFileChanged(true) is delivered by the event loop.
DeliverFileChanged(d) ==
    /\ db[d].queuedFileChanged > 0
    /\ db' = [db EXCEPT ![d] =
                emit([Fresh(@) EXCEPT !.queuedFileChanged = @ - 1],
                     "databaseFileChanged(true)")]
    /\ ret' = Ret(d, "databaseFileChanged", FALSE, FALSE, TRUE, "none")
    /\ Window(d, FALSE)
    /\ UNCHANGED <<s_uuidMap, nextUuid, disk, backupFile>>

\* Another process rewrites, truncates, creates or deletes a file at one of
\* paths.
ExternalWrite(paths) ==
    /\ \E p \in paths, c \in FileContents :
         /\ c # disk[p]
         /\ disk' = [disk EXCEPT ![p] = c]
    /\ ret' = [NoRet EXCEPT !.op = "external"]
    /\ UNCHANGED <<db, s_uuidMap, nextUuid, backupFile, burst>>

\* ------------------------------------------------------------- tree calls
RemoveTag(d, tags) ==
    /\ Usable(d)
    /\ \E tag \in tags : db' = [db EXCEPT ![d] = removeTag(Fresh(@), tag)]
    /\ ret' = Ret(d, "removeTag", TRUE, TRUE, TRUE, "none")
    /\ Window(d, FALSE)
    /\ UNCHANGED <<s_uuidMap, nextUuid, disk, backupFile>>

\* A recycle call finds a bin, needs none, or can make one.
BinAtHand(d) ==
    \/ ~db[d].metadata.recycleBinEnabled
    \/ db[d].metadata.recycleBin # NoGroup
    \/ NewBin(db[d]) # NoGroup

\* recycleEntry of an entry of the tree.
RecycleEntry(d) ==
    /\ Usable(d)
    /\ BinAtHand(d)
    /\ \E entry \in entriesRecursive(db[d]) :
         db' = [db EXCEPT ![d] = recycleEntry(Fresh(@), entry)]
    /\ ret' = Ret(d, "recycleEntry", TRUE, TRUE, TRUE, "none")
    /\ Window(d, FALSE)
    /\ UNCHANGED <<s_uuidMap, nextUuid, disk, backupFile>>

\* recycleGroup of an ordinary group of the tree.
RecycleGroup(d) ==
    /\ Usable(d)
    /\ BinAtHand(d)
    /\ \E group \in {g \in Groups : db[d].tree.parent[g] # NoGroup} :
         db' = [db EXCEPT ![d] = recycleGroup(Fresh(@), group)]
    /\ ret' = Ret(d, "recycleGroup", TRUE, TRUE, TRUE, "none")
    /\ Window(d, FALSE)
    /\ UNCHANGED <<s_uuidMap, nextUuid, disk, backupFile>>

EmptyRecycleBin(d) ==
    /\ Usable(d)
    /\ db' = [db EXCEPT ![d] = emptyRecycleBin(Fresh(@))]
    /\ ret' = Ret(d, "emptyRecycleBin", TRUE, TRUE, TRUE, "none")
    /\ Window(d, FALSE)
    /\ UNCHANGED <<s_uuidMap, nextUuid, disk, backupFile>>

\* Metadata::setRecycleBinEnabled: a changed setting marks the database
\* modified.
SetRecycleBinEnabled(d, values) ==
    /\ Usable(d)
    /\ \E value \in values :
         db' = [db EXCEPT ![d] =
                  IF @.metadata.recycleBinEnabled = value THEN Fresh(@)
                  ELSE markAsModified([Fresh(@) EXCEPT
                                         !.metadata.recycleBinEnabled = value])]
    /\ ret' = Ret(d, "setRecycleBinEnabled", TRUE, TRUE, TRUE, "none")
    /\ Window(d, FALSE)
    /\ UNCHANGED <<s_uuidMap, nextUuid, disk, backupFile>>

\* ------------------------------------------------------------- initial states
InitDisk ==
    /\ disk = [p \in Paths |-> IF p = 1 THEN FullFile(1) ELSE NoFile]
    /\ backupFile = NoFile

\* No Database constructed yet.
InitEmpty ==
    /\ db = [d \in DBs |-> Unborn]
    /\ s_uuidMap = [u \in Uuids |-> NoDb]
    /\ nextUuid = 1
    /\ InitDisk
    /\ burst = [d \in DBs |-> 0]
    /\ ret = NoRet

\* Object 1 constructed.
InitOne ==
    /\ db = [d \in DBs |-> IF d = 1 THEN Constructed(1) ELSE Unborn]
    /\ s_uuidMap = [u \in Uuids |-> IF u = 1 THEN 1 ELSE NoDb]
    /\ nextUuid = 2
    /\ InitDisk
    /\ burst = [d \in DBs |-> 0]
    /\ ret = NoRet

\* Every object constructed.
InitAll ==
    /\ db = [d \in DBs |-> Constructed(d)]
    /\ s_uuidMap = [u \in Uuids |-> IF u \in DBs THEN u ELSE NoDb]
    /\ nextUuid = MaxDb + 1
    /\ InitDisk
    /\ burst = [d \in DBs |-> 0]
    /\ ret = NoRet

\* Object 1 constructed and filled: each ordinary group is absent, below the
\* root or (the second) below the first, each entry is absent or in a group
\* with some tags; no recycle bin yet.
InitTree ==
    /\ \E p1 \in {NoGroup, Root}, p2 \in {NoGroup, Root, 1} :
         /\ p2 = 1 => p1 = Root
         /\ \E entry \in [Entries ->
                  {NoEntry} \cup
                  [group : {Root} \cup (IF p1 # NoGroup THEN {1} ELSE {})
                                  \cup (IF p2 # NoGroup THEN {2} ELSE {}),
                   tags : SUBSET Tags]] :
              db = [d \in DBs |->
                      IF d = 1
                      THEN [Constructed(1) EXCEPT
                              !.tree = [entry |-> entry,
                                        parent |-> [g \in Groups \cup Bins |->
                                                      IF g = 1 THEN p1
                                                      ELSE IF g = 2 THEN p2
                                                      ELSE NoGroup]]]
                      ELSE Unborn]
    /\ s_uuidMap = [u \in Uuids |-> IF u = 1 THEN 1 ELSE NoDb]
    /\ nextUuid = 2
    /\ InitDisk
    /\ burst = [d \in DBs |-> 0]
    /\ ret = NoRet

\* ------------------------------------------------------------- tracker spec
\* The modification trackers of the objects, each with its own timer.
NextTracker ==
    \E d \in DBs :
        \/ MarkAsModified(d)
        \/ MarkAsClean(d)
        \/ MarkNonDataChange(d)
        \/ SetEmitModified(d)
        \/ Tick(d)

SpecTracker == InitAll /\ [][NextTracker]_vars

\* ------------------------------------------------------------- registry spec
NextRegistry ==
    \E d \in DBs :
        \/ Construct(d)
        \/ ReleaseData(d)
        \/ Destroy(d)
        \/ MarkAsModified(d)

SpecRegistry == InitEmpty /\ [][NextRegistry]_vars

\* ------------------------------------------------------------- persistence spec
\* One save at a time, the client acting between the saves.
SaveActions == {"Atomic", "TempFile", "DirectWrite"}

\* What opening and reading a file can do.
ReadOutcomes == {"ok", "openfail", "shortread"}

Next ==
    \/ Idle(1) /\ Open(1, RealKeys, {"ok", "openfail"}, {TRUE})
    \/ Idle(1) /\ SetKey(1, RealKeys, {TRUE}, {TRUE})
    \/ Idle(1) /\ SetIgnoreFileChangesUntilSaved(1)
    \/ Idle(1) /\ burst[1] = 0 /\ MarkAsModified(1)
    \/ Idle(1) /\ SaveBegin(1, SaveActions, {"null"}, ReadOutcomes)
    \/ PerformSaveOpen(1)
    \/ PerformSaveWrite(1)
    \/ DeliverStop(1)
    \/ SaveEnd(1)
    \/ Idle(1) /\ DeliverFileChanged(1)
    \/ Idle(1) /\ ExternalWrite({1})

Spec == InitOne /\ [][Next]_vars

\* ------------------------------------------------------------- overlapping saves
\* As Spec without open and the ignore flag, but save and saveAs are also
\* called while a save is in flight (from the event loop saveAs waits in).
NextBusy ==
    \/ Idle(1) /\ SetKey(1, RealKeys, {TRUE}, {TRUE})
    \/ Idle(1) /\ burst[1] = 0 /\ MarkAsModified(1)
    \/ SaveBegin(1, SaveActions, {"null"}, ReadOutcomes)
    \/ PerformSaveOpen(1)
    \/ PerformSaveWrite(1)
    \/ DeliverStop(1)
    \/ SaveEnd(1)
    \/ Idle(1) /\ DeliverFileChanged(1)
    \/ Idle(1) /\ ExternalWrite({1})

SpecBusy == InitOne /\ [][NextBusy]_vars

\* ------------------------------------------------------------- release spec
\* One object is opened, keyed, marked and released, in any order.
NextRelease ==
    \/ Open(1, {NullKey} \cup RealKeys, {"ok", "shortread"}, BOOLEAN)
    \/ SetKey(1, Keys, BOOLEAN, BOOLEAN)
    \/ SetIgnoreFileChangesUntilSaved(1)
    \/ MarkAsModified(1)
    \/ MarkAsClean(1)
    \/ Tick(1)
    \/ ReleaseData(1)

SpecRelease == InitOne /\ [][NextRelease]_vars

\* ------------------------------------------------------------- stale file spec
\* An opened database is saved to its path while another process rewrites
\* the file; the event loop delivers what was queued.
NextStale ==
    \/ Idle(1) /\ Open(1, RealKeys, {"ok"}, {TRUE})
    \/ Idle(1) /\ burst[1] = 0 /\ MarkAsModified(1)
    \/ Idle(1) /\ SetIgnoreFileChangesUntilSaved(1)
    \/ Idle(1) /\ ExternalWrite({1})
    \/ Idle(1) /\ SaveBegin(1, {"Atomic"}, {"null"}, {"ok"})
    \/ PerformSaveOpen(1)
    \/ PerformSaveWrite(1)
    \/ DeliverStop(1)
    \/ SaveEnd(1)
    \/ DeliverFileChanged(1)

SpecStale == InitOne /\ [][NextStale]_vars /\ WF_vars(DeliverFileChanged(1))

\* ------------------------------------------------------------- key spec
\* The key lifecycle of one object: keys are set with every combination of
\* arguments, the KDF is changed, and the client marks the database clean.
NextKey ==
    \/ SetKey(1, Keys, BOOLEAN, BOOLEAN)
    \/ ChangeKdf(1, Kdfs, BOOLEAN)
    \/ MarkAsClean(1)

SpecKey == InitOne /\ [][NextKey]_vars

\* ------------------------------------------------------------- refusal spec
\* Saves are called in every state of the object: without a path, during a
\* save, without a key (never set, reset, empty, released) and after another
\* process rewrote the file.  The key is also reset by a call the event loop
\* runs once the worker has finished and before saveAs goes on.
NextRefuse ==
    \/ Idle(1) /\ Open(1, RealKeys, {"ok"}, {TRUE})
    \/ db[1].job.phase \in {"idle", "done"} /\ SetKey(1, Keys, {TRUE}, {TRUE})
    \/ Idle(1) /\ ReleaseData(1)
    \/ Idle(1) /\ ExternalWrite({1})
    \/ SaveBegin(1, {"Atomic"}, {"null"}, ReadOutcomes)
    \/ PerformSaveOpen(1)
    \/ PerformSaveWrite(1)
    \/ DeliverStop(1)
    \/ SaveEnd(1)
    \/ Idle(1) /\ DeliverFileChanged(1)

SpecRefuse == InitOne /\ [][NextRefuse]_vars

\* ------------------------------------------------------------- backup spec
\* A keyed database is saved with every strategy, without a backup path,
\* with an empty one and with a real one, while the files change.
BackupPaths == {"null", "empty", "path"}

NextBackup ==
    \/ Idle(1) /\ SetKey(1, RealKeys, {TRUE}, {TRUE})
    \/ Idle(1) /\ SaveBegin(1, SaveActions, BackupPaths, {"ok"})
    \/ PerformSaveOpen(1)
    \/ PerformSaveWrite(1)
    \/ DeliverStop(1)
    \/ SaveEnd(1)
    \/ Idle(1) /\ DeliverFileChanged(1)
    \/ Idle(1) /\ ExternalWrite(Paths)

SpecBackup == InitOne /\ [][NextBackup]_vars

\* ------------------------------------------------------------- open spec
\* A database is opened, with and without a key, from files that are absent,
\* short or full, that cannot be opened or read, or that the reader rejects,
\* after the client marked it and while other processes rewrite the files.
NextOpen ==
    \/ Open(1, {NullKey} \cup RealKeys, ReadOutcomes, BOOLEAN)
    \/ burst[1] = 0 /\ MarkAsModified(1)
    \/ MarkNonDataChange(1)
    \/ ExternalWrite(Paths)

SpecOpen == InitOne /\ [][NextOpen]_vars

\* ------------------------------------------------------------- teardown spec
\* releaseData is called at any moment of the life of a database that is
\* keyed and saved, also while a save is in flight and while save is called
\* again from the event loop.
NextTeardown ==
    \/ Idle(1) /\ SetKey(1, RealKeys, {TRUE}, {TRUE})
    \/ SaveBegin(1, {"Atomic"}, {"null"}, {"ok"})
    \/ PerformSaveOpen(1)
    \/ PerformSaveWrite(1)
    \/ DeliverStop(1)
    \/ SaveEnd(1)
    \/ ReleaseData(1)
    \/ ReleaseDataBlocked(1)

SpecTeardown == InitOne /\ [][NextTeardown]_vars

\* ------------------------------------------------------------- tree spec
\* The tree of a filled database under tag removal and the recycle bin.
NextTree ==
    \/ RemoveTag(1, Tags)
    \/ RecycleEntry(1)
    \/ RecycleGroup(1)
    \/ EmptyRecycleBin(1)
    \/ SetRecycleBinEnabled(1, BOOLEAN)

SpecTree == InitTree /\ [][NextTree]_vars

\* ------------------------------------------------------------- retry spec
\* A database is opened from its file and then saved to the bound path only,
\* with every strategy and every failure of performSave; no other process
\* writes the file.
NextRetry ==
    \/ Idle(1) /\ Open(1, RealKeys, {"ok"}, {TRUE})
    \/ Idle(1) /\ SaveBegin(1, SaveActions, {"null", "path"}, {"ok"}) /\ ret'.op = "save"
    \/ PerformSaveOpen(1)
    \/ PerformSaveWrite(1)
    \/ DeliverStop(1)
    \/ SaveEnd(1)
    \/ Idle(1) /\ DeliverFileChanged(1)

SpecRetry == InitOne /\ [][NextRetry]_vars

\* ------------------------------------------------------------- claims
\* C1: when a save or saveAs returns true, with any strategy, modified is
\* false and fileBlockHash is the digest of the first block written to the
\* target file by that save; so it is at the emission of databaseSaved.
C1_SavedCleanAndHashed ==
    \A d \in DBs :
        (ret.d = d /\ ret.op = "saveAs" /\ ret.returned /\ ret.ok) =>
            LET s == db[d]
                file == disk[s.filePath]
            IN  /\ ~s.m_modified
                /\ file.full
                /\ s.m_fileBlockHash = hashingResult(file.blk)
                /\ \A i \in DOMAIN s.log :
                      s.log[i].sig = "databaseSaved" =>
                          /\ ~s.log[i].modified
                          /\ s.log[i].hash = hashingResult(file.blk)

\* C1 witness: a save of a modified database returned true, databaseSaved
\* was emitted, and the file written differs from the one opened at first.
C1_Witness ==
    /\ ret.op = "saveAs" /\ ret.returned /\ ret.ok
    /\ Count(db[1].log, "databaseSaved") = 1
    /\ disk[db[1].filePath] = FullFile(NumBlocks)

C3_IgnoreUntilSaved ==
    [][\A d \in DBs : (ret'.d = d /\ ret'.op \in {"save", "saveAs"}) =>
          /\ (ret'.entry /\ db[d].m_ignoreFileChangesUntilSaved
                 /\ isInitialized(db[d]) /\ ~isSaving(db[d])
                 /\ db[d].filePath # NoPath) =>
                /\ ~ret'.returned
                /\ db'[d].job.phase = "queued"
          /\ (ret'.returned /\ ret'.ok) =>
                ~db'[d].m_ignoreFileChangesUntilSaved
          /\ (ret'.returned /\ ~ret'.ok) =>
                db'[d].m_ignoreFileChangesUntilSaved
                    = db[d].m_ignoreFileChangesUntilSaved
      ]_vars

\* C3 witness: a save to the bound path went on to performSave although the
\* file on disk differs from the recorded hash, the flag being set.
C3_Witness ==
    /\ db[1].job.phase = "queued"
    /\ db[1].job.filePath = db[1].filePath
    /\ db[1].m_ignoreFileChangesUntilSaved
    /\ db[1].m_fileBlockHash # EmptyBytes
    /\ disk[db[1].filePath].full
    /\ db[1].m_fileBlockHash # Md5(disk[db[1].filePath].blk)

\* C4: the save mutex is held exactly while a performSave is in flight, and
\* a save or saveAs called meanwhile returns false with the Busy error,
\* starting no second performSave and leaving the disk, the watcher and the
\* state of the database as they are.
C4_OneSaveInFlight ==
    /\ [](\A d \in DBs : db[d].m_saveMutex = (db[d].job.phase # "idle"))
    /\ [][\A d \in DBs :
            (/\ ret'.d = d /\ ret'.op \in {"save", "saveAs"} /\ ret'.entry
             /\ db[d].job.phase # "idle"
             /\ (ret'.op = "saveAs" \/ db[d].filePath # NoPath)) =>
                /\ ret'.returned /\ ~ret'.ok /\ ret'.err = "Busy"
                /\ disk' = disk /\ backupFile' = backupFile
                /\ db'[d] = Fresh(db[d])
        ]_vars

\* C4 witness: a call returned Busy while the worker was writing.
C4_Witness ==
    /\ ret.err = "Busy" /\ ret.returned /\ ~ret.ok
    /\ db[1].job.phase = "writing"
    /\ db[1].m_saveMutex

\* C5: when writeDatabase succeeds on an initialized database, the
\* transformed key differs from the one held before the write.
C5_KeyRotated ==
    [][\A d \in DBs :
          (/\ db[d].job.phase = "writing"
           /\ db'[d].job.phase = "done" /\ db'[d].job.ok
           /\ isInitialized(db[d])) =>
              db'[d].transformedDatabaseKey # db[d].transformedDatabaseKey
      ]_vars

\* C6 as stated: after any save or saveAs that returns false the database
\* is marked modified.
C6_FailedSaveMarksModified ==
    \A d \in DBs :
        (ret.d = d /\ ret.op \in {"save", "saveAs"} /\ ret.returned /\ ~ret.ok) =>
            db[d].m_modified

\* C6 amended: a save or saveAs whose performSave fails marks the database
\* modified and leaves the watcher stopped; a call refused before
\* performSave leaves the modified flag and the watcher as they were; no
\* call returning false starts the watcher.
C6_FailedSaveAmended ==
    [][\A d \in DBs :
          (/\ ret'.d = d /\ ret'.op \in {"save", "saveAs"}
           /\ ret'.returned /\ ~ret'.ok) =>
              /\ Count(db'[d].log, "watcher.start") = 0
              /\ ~ret'.entry =>
                    /\ db'[d].m_modified
                    /\ ~db'[d].watching
              /\ ret'.entry =>
                    /\ db'[d].m_modified = db[d].m_modified
                    /\ db'[d].watching = db[d].watching
                    /\ Count(db'[d].log, "watcher.stop") = 0
      ]_vars

\* C6 witness: saveAs returned false after the codec failed; the database
\* is modified, the timer armed by that mark, and the watcher stopped.
C6_Witness ==
    /\ ret.op = "saveAs" /\ ret.returned /\ ~ret.ok /\ ret.err = "CodecError"
    /\ db[1].m_modified
    /\ db[1].m_modifiedTimer = TimerTicks
    /\ ~db[1].watching

\* C7: with modification signaling enabled, N >= 1 markAsModified calls made
\* within one run of the debounce timer give exactly one modified event: the
\* first call arms the timer, a call while the timer runs leaves it as it
\* is, no call emits the event itself, and the expiry emits it once, after
\* at least one call.
C7_DebounceOneEvent ==
    [][\A d \in DBs : ret'.d = d =>
          /\ (ret'.op = "markAsModified" /\ db[d].m_emitModified) =>
                db'[d].m_modifiedTimer =
                    IF db[d].m_modifiedTimer = 0 THEN TimerTicks
                    ELSE db[d].m_modifiedTimer
          /\ (ret'.op = "timeout" /\ db[d].m_emitModified) =>
                /\ Count(db'[d].log, "modified") = 1
                /\ ret'.n >= 1
                /\ db'[d].m_modifiedTimer = 0
          /\ ret'.op # "timeout" => Count(db'[d].log, "modified") = 0
      ]_vars

\* C7 witness: the timer expired after several calls and one event came.
C7_Witness ==
    /\ ret.op = "timeout"
    /\ ret.n >= MaxBurst
    /\ Count(db[1].log, "modified") = 1

\* C8: markNonDataChange sets hasNonDataChange, emits the non-data event
\* once, and leaves the modified flag and the debounce timer as they were.
C8_NonDataChangeFrame ==
    [][\A d \in DBs : (ret'.d = d /\ ret'.op = "markNonDataChange") =>
          /\ db'[d].m_hasNonDataChange
          /\ Count(db'[d].log, "databaseNonDataChanged") = 1
          /\ db'[d].m_modified = db[d].m_modified
          /\ db'[d].m_modifiedTimer = db[d].m_modifiedTimer
      ]_vars

\* C8 witness: markNonDataChange ran on a clean database with signaling
\* enabled and the timer at rest.
C8_Witness ==
    /\ ret.op = "markNonDataChange"
    /\ db[1].m_hasNonDataChange
    /\ db[1].m_emitModified
    /\ ~db[1].m_modified
    /\ db[1].m_modifiedTimer = 0

\* C9: after releaseData on a database whose identifier was U,
\* databaseByUuid(U) is absent, modified is false, fileBlockHash is empty,
\* ignoreFileChangesUntilSaved is false, and the call emitted
\* databaseDiscarded once if modified was true before it, else not at all.
C9_ReleaseData ==
    [][\A d \in DBs : (ret'.d = d /\ ret'.op = "releaseData") =>
          /\ databaseByUuid(s_uuidMap', db[d].m_uuid) = NoDb
          /\ ~db'[d].m_modified
          /\ db'[d].m_fileBlockHash = EmptyBytes
          /\ ~db'[d].m_ignoreFileChangesUntilSaved
          /\ Count(db'[d].log, "databaseDiscarded")
                = IF db[d].m_modified THEN 1 ELSE 0
      ]_vars

\* C9 witness: releaseData ran on a registered, initialized, modified
\* database and databaseDiscarded was emitted.
C9_Witness ==
    /\ ret.op = "releaseData"
    /\ Count(db[1].log, "databaseDiscarded") = 1
    /\ db[1].m_uuid = NullUuid
    /\ databaseByUuid(s_uuidMap, 1) = NoDb

\* C10: each Database that is constructed and not released is registered
\* under its own identifier: databaseByUuid of its uuid returns it, no other
\* such database has that identifier, and the registry reaches a database
\* under no identifier but its own.
C10_RegisteredUniquely ==
    \A d \in DBs :
        /\ (db[d].life = "live" /\ db[d].m_uuid # NullUuid) =>
              /\ databaseByUuid(s_uuidMap, db[d].m_uuid) = d
              /\ \A e \in DBs \ {d} :
                    db[e].life = "live" => db[e].m_uuid # db[d].m_uuid
        /\ \A u \in Uuids : databaseByUuid(s_uuidMap, u) = d => db[d].m_uuid = u

\* C10 witness: two registered databases after an earlier one was released.
C10_Witness ==
    /\ \A d \in {1, 2} : db[d].life = "live" /\ db[d].m_uuid # NullUuid
    /\ \E u \in Uuids : u < nextUuid /\ databaseByUuid(s_uuidMap, u) = NoDb

\* C11: a setKey with a present key that returns true, called on a database
\* that is not modified, leaves it modified if and only if the stored
\* transformed-key bytes after the call differ from those before it.
C11_ModifiedIffKeyChanged ==
    [][\A d \in DBs :
          (/\ ret'.d = d /\ ret'.op = "setKey" /\ ret'.ok
           /\ db'[d].key # NullKey
           /\ ~db[d].m_modified) =>
              (db'[d].m_modified <=>
                  db'[d].transformedDatabaseKey # db[d].transformedDatabaseKey)
      ]_vars

\* C12: whenever a database is initialized (key present and non-empty, root
\* group present), its cached transformedDatabaseKey is non-empty.
C12_InitializedHasTransformedKey ==
    \A d \in DBs :
        isInitialized(db[d]) => db[d].transformedDatabaseKey # EmptyBytes

\* C13: when changeKdf(k) returns true, the database holds a descriptor and
\* the seed drawn for it such that the stored transformed key is the
\* transform of the database's key (the empty composite key when none was
\* set) under that descriptor and seed, the format version is the lowest one
\* the descriptor requires, and the database is modified.
C13_ChangeKdf ==
    [][\A d \in DBs :
          (ret'.d = d /\ ret'.op = "changeKdf" /\ ret'.ok) =>
              LET s == db'[d]
              IN  /\ s.key = (IF db[d].key = NullKey THEN EmptyKey ELSE db[d].key)
                  /\ s.kdf \in Kdfs /\ s.kdfSeed \in Seeds
                  /\ s.transformedDatabaseKey = Transform(s.key, s.kdf, s.kdfSeed)
                  /\ s.formatVersion = kdbxVersionRequired(s, TRUE, FALSE)
                  /\ s.formatVersion = (IF s.kdf = 1 THEN 3 ELSE 4)
                  /\ s.m_modified
      ]_vars

\* C13 witness: changeKdf returned true on a database with a non-empty key,
\* installing a descriptor and a seed other than the constructor's.
C13_Witness ==
    /\ ret.op = "changeKdf" /\ ret.ok
    /\ db[1].key \in RealKeys
    /\ db[1].kdf = NumKdfs /\ db[1].kdfSeed = NumSeeds
    /\ db[1].formatVersion = 4
    /\ db[1].m_modified

\* C14: a save or saveAs is refused before anything is written, with the
\* error of the first condition that holds in this order: no bound path
\* (save only), a save in flight (Busy), the database not initialized, the
\* bound file changed by another process; a call on a database that is not
\* initialized is always refused, and the worker writes only for a database
\* that is initialized.
C14_RefusalOrder ==
    [][\A d \in DBs :
          /\ (ret'.d = d /\ ret'.op \in {"save", "saveAs"} /\ ret'.entry) =>
                LET s == db[d]
                    unbound == ret'.op = "save" /\ s.filePath = NoPath
                    busy == s.job.phase # "idle"
                    file == disk[s.filePath]
                    stale == /\ s.filePath # NoPath
                             /\ ~s.m_ignoreFileChangesUntilSaved
                             /\ s.m_fileBlockHash # EmptyBytes
                             /\ file.full
                             /\ s.m_fileBlockHash # Md5(file.blk)
                    refused == ret'.returned /\ ~ret'.ok
                    untouched == /\ disk' = disk /\ backupFile' = backupFile
                                 /\ db'[d].job = s.job
                                 /\ db'[d].m_saveMutex = s.m_saveMutex
                IN  /\ unbound => (refused /\ ret'.err = "NotBound")
                    /\ (~unbound /\ busy) => (refused /\ ret'.err = "Busy")
                    /\ (~unbound /\ ~busy /\ ~isInitialized(s)) =>
                          (refused /\ ret'.err = "NotInitialized")
                    /\ (ret'.op = "save" /\ ~unbound /\ ~busy /\ isInitialized(s)
                           /\ stale) =>
                          (refused /\ ret'.err \in {"Unmerged", "UnableToOpen",
                                                     "ReadError"})
                    /\ ret'.err = "Unmerged" =>
                          (~unbound /\ ~busy /\ isInitialized(s) /\ stale)
                    /\ ret'.err = "NotBound" => unbound
                    /\ ret'.err = "Busy" => (~unbound /\ busy)
                    /\ ret'.err = "NotInitialized" =>
                          (~unbound /\ ~busy /\ ~isInitialized(s))
                    /\ refused => untouched
                    /\ ~isInitialized(s) => (refused /\ untouched)
          /\ (ret'.d = d /\ ret'.op = "performSave"
                 /\ (disk' # disk \/ backupFile' # backupFile)) =>
                isInitialized(db[d])
      ]_vars

\* C14 witness: a save was refused as Busy on a database bound to a path
\* whose key had been reset and whose file another process had rewritten.
C14_Witness ==
    /\ ret.op = "save" /\ ret.returned /\ ~ret.ok /\ ret.err = "Busy"
    /\ ~isInitialized(db[1])
    /\ db[1].filePath # NoPath
    /\ ~db[1].m_ignoreFileChangesUntilSaved
    /\ db[1].m_fileBlockHash # EmptyBytes
    /\ disk[db[1].filePath].full
    /\ db[1].m_fileBlockHash # Md5(disk[db[1].filePath].blk)

C16_Opened ==
    [][\A d \in DBs :
          (ret'.d = d /\ ret'.op = "open" /\ ret'.ok) =>
              LET s == db'[d]
                  n == Len(s.log)
              IN  /\ s.filePath # NoPath
                  /\ disk[s.filePath].exists
                  /\ s.m_fileBlockHash =
                        (IF disk[s.filePath].full
                         THEN Md5(disk[s.filePath].blk) ELSE EmptyBytes)
                  /\ ~s.m_modified
                  /\ ~s.m_hasNonDataChange
                  /\ s.watching
                  /\ Count(s.log, "databaseOpened") = 1
                  /\ n >= 2
                  /\ s.log[n].sig = "watcher.start"
                  /\ s.log[n - 1].sig = "databaseOpened"
                  /\ ~s.log[n - 1].modified
                  /\ s.log[n - 1].hash = s.m_fileBlockHash
      ]_vars

\* C16 witness: a database bound to one path, marked modified and with a
\* non-data change, was opened from a short file at another path.
C16_Witness ==
    /\ ret.op = "open" /\ ret.ok
    /\ Count(db[1].log, "filePathChanged") = 1
    /\ Count(db[1].log, "databaseSaved") = 1
    /\ Count(db[1].log, "watcher.stop") = 1
    /\ disk[db[1].filePath] = ShortFile
    /\ db[1].m_fileBlockHash = EmptyBytes

\* C17: fileBlockHash changes only in an open that returns true, in a
\* performSave that succeeds, or in releaseData; an open, save or saveAs that
\* returns false leaves it as it was.
C17_HashFrame ==
    [][\A d \in DBs :
          /\ db'[d].m_fileBlockHash # db[d].m_fileBlockHash =>
                \/ ret'.d = d /\ ret'.op = "open" /\ ret'.ok
                \/ ret'.d = d /\ ret'.op = "performSave" /\ db'[d].job.ok
                \/ ret'.d = d /\ ret'.op = "releaseData"
          /\ (ret'.d = d /\ ret'.op \in {"open", "save", "saveAs"}
                 /\ ret'.returned /\ ~ret'.ok) =>
                db'[d].m_fileBlockHash = db[d].m_fileBlockHash
      ]_vars

\* C18: whenever open, save or saveAs returns false, the call has set the
\* error string.
C18_ErrorAlwaysSet ==
    [][\A d \in DBs :
          (ret'.d = d /\ ret'.op \in {"open", "save", "saveAs"}
             /\ ret'.returned /\ ~ret'.ok) =>
                ret'.err # "none"
      ]_vars

\* C19: over any sequence of markAsModified, markNonDataChange and
\* markAsClean calls (and timer expiries), markAsClean leaves modified and
\* hasNonDataChange false and the timer stopped, and emits databaseSaved
\* once when modified was true before the call and not at all when it was
\* false; no other step emits it or takes modified from true to false.
C19_CleanEmitsSavedOnce ==
    [][\A d \in DBs : ret'.d = d =>
          /\ ret'.op = "markAsClean" =>
                /\ ~db'[d].m_modified
                /\ ~db'[d].m_hasNonDataChange
                /\ db'[d].m_modifiedTimer = 0
                /\ Count(db'[d].log, "databaseSaved")
                      = IF db[d].m_modified THEN 1 ELSE 0
                /\ \A i \in DOMAIN db'[d].log :
                      db'[d].log[i].sig = "databaseSaved" => ~db'[d].log[i].modified
          /\ ret'.op # "markAsClean" =>
                /\ Count(db'[d].log, "databaseSaved") = 0
                /\ db[d].m_modified => db'[d].m_modified
      ]_vars

\* C19 witness: markAsClean ran on a modified database whose timer was
\* running after several markAsModified calls, and databaseSaved was emitted
\* once.
C19_Witness ==
    /\ ret.op = "markAsClean"
    /\ ret.n >= 2
    /\ Count(db[1].log, "databaseSaved") = 1
    /\ ~db[1].m_modified /\ ~db[1].m_hasNonDataChange
    /\ db[1].m_modifiedTimer = 0

C22_SignalingRestored ==
    [][\A d \in DBs : ret'.d = d =>
          /\ (ret'.op = "open" /\ ret'.returned) => db'[d].m_emitModified
          /\ ret'.op = "markAsModified" => db'[d].m_modifiedTimer > 0
      ]_vars

\* C23: releaseData tears the database down only when no performSave of it
\* is in flight: called during a save it waits for the mutex.  While a save
\* is in flight the key, the root group and the identifier stay, and the
\* transformed key and fileBlockHash are changed by performSave alone.  A
\* saveAs that starts performSave holds the mutex, and releases it when it
\* returns, with true or false; a call that is refused leaves the mutex as
\* it found it.
C23_SaveExcludesRelease ==
    [][\A d \in DBs : ret'.d = d =>
          /\ (ret'.op = "releaseData" /\ ret'.returned) =>
                (db[d].job.phase = "idle" /\ ~isSaving(db[d]))
          /\ (ret'.op = "releaseData" /\ ~ret'.returned) =>
                (isSaving(db[d]) /\ db'[d] = db[d] /\ s_uuidMap' = s_uuidMap)
          /\ db[d].job.phase # "idle" =>
                /\ db'[d].key = db[d].key
                /\ db'[d].hasRoot = db[d].hasRoot
                /\ db'[d].m_uuid = db[d].m_uuid
                /\ s_uuidMap' = s_uuidMap
                /\ db'[d].filePath # db[d].filePath => ret'.op = "saveAs"
                /\ ret'.op # "performSave" =>
                      /\ db'[d].transformedDatabaseKey = db[d].transformedDatabaseKey
                      /\ db'[d].m_fileBlockHash = db[d].m_fileBlockHash
          /\ (ret'.op \in {"save", "saveAs"} /\ ret'.entry /\ ~ret'.returned) =>
                isSaving(db'[d])
          /\ (ret'.op \in {"save", "saveAs"} /\ ret'.returned /\ ~ret'.entry) =>
                (~isSaving(db'[d]) /\ db'[d].job.phase = "idle")
          /\ (ret'.op \in {"save", "saveAs"} /\ ret'.returned /\ ret'.entry) =>
                isSaving(db'[d]) = isSaving(db[d])
      ]_vars

\* C23 witness: releaseData was called while the worker was writing and
\* waits; the database is still initialized.
C23_Witness ==
    /\ ret.op = "releaseData" /\ ~ret.returned
    /\ db[1].job.phase = "writing"
    /\ isSaving(db[1])
    /\ isInitialized(db[1])
    /\ db[1].m_uuid # NullUuid

\* C24: removeTag(tag) takes the tag from every entry that is not recycled,
\* leaves the tags of the entries under the recycle bin as they were, and
\* marks the database modified only through an entry it changed.
C24_RemoveTagSparesRecycled ==
    [][\A d \in DBs : (ret'.d = d /\ ret'.op = "removeTag") =>
          /\ \E tag \in Tags : \A e \in Entries :
                db'[d].tree.entry[e] =
                    IF e \in entriesRecursive(db[d]) /\ ~Entry_isRecycled(db[d], e)
                    THEN [db[d].tree.entry[e] EXCEPT !.tags = @ \ {tag}]
                    ELSE db[d].tree.entry[e]
          /\ db'[d].tree.entry = db[d].tree.entry =>
                /\ db'[d].m_modified = db[d].m_modified
                /\ db'[d].m_modifiedTimer = db[d].m_modifiedTimer
      ]_vars

\* C25: with the recycle bin enabled, recycleEntry and recycleGroup make the
\* bin when there is none, register it in the metadata, and move the item
\* to be a direct child of it, destroying nothing; there is never more than
\* one bin group, and it is the registered one, below the root.
\* emptyRecycleBin leaves the bin in place with no child entry and no child
\* group, destroys what was recycled and nothing else, and makes no bin when
\* there is none.  With the bin disabled, recycleEntry and recycleGroup
\* destroy the item (a group with all below it) and make no bin.
C25_RecycleBinPolicy ==
    [][\A d \in DBs : ret'.d = d =>
          LET s == db[d]
              t == db'[d]
              enabled == s.metadata.recycleBinEnabled
              old == s.metadata.recycleBin
              bin == t.metadata.recycleBin
              bins(x) == {b \in Bins : x.tree.parent[b] # NoGroup}
              live(x) == {g \in Groups : x.tree.parent[g] # NoGroup}
          IN  /\ ret'.op \in {"recycleEntry", "recycleGroup", "emptyRecycleBin"} =>
                    /\ Cardinality(bins(t)) <= 1
                    /\ bins(t) = IF bin = NoGroup THEN {} ELSE {bin}
                    /\ bins(s) \subseteq bins(t)
                    /\ bin # NoGroup => t.tree.parent[bin] = Root
                    /\ t.metadata.recycleBinEnabled = enabled
              /\ (ret'.op = "recycleEntry" /\ enabled) =>
                    /\ bin # NoGroup
                    /\ \E e \in entriesRecursive(s) :
                          t.tree.entry = [s.tree.entry EXCEPT ![e].group = bin]
                    /\ t.tree.parent = [s.tree.parent EXCEPT ![bin] = Root]
              /\ (ret'.op = "recycleGroup" /\ enabled) =>
                    /\ bin # NoGroup
                    /\ \E g \in live(s) :
                          t.tree.parent = [s.tree.parent EXCEPT ![bin] = Root, ![g] = bin]
                    /\ t.tree.entry = s.tree.entry
              /\ (ret'.op = "emptyRecycleBin" /\ enabled /\ old # NoGroup) =>
                    /\ bin = old
                    /\ \A e \in Entries :
                          /\ t.tree.entry[e].group # bin
                          /\ t.tree.entry[e] =
                                IF Entry_isRecycled(s, e) THEN NoEntry ELSE s.tree.entry[e]
                    /\ \A g \in Groups :
                          /\ t.tree.parent[g] # bin
                          /\ t.tree.parent[g] =
                                IF Group_isRecycled(s, g) THEN NoGroup ELSE s.tree.parent[g]
              /\ (ret'.op = "emptyRecycleBin" /\ ~(enabled /\ old # NoGroup)) =>
                    (t.tree = s.tree /\ t.metadata = s.metadata)
              /\ (ret'.op = "recycleEntry" /\ ~enabled) =>
                    /\ \E e \in entriesRecursive(s) :
                          t.tree.entry = [s.tree.entry EXCEPT ![e] = NoEntry]
                    /\ t.tree.parent = s.tree.parent
                    /\ t.metadata = s.metadata
              /\ (ret'.op = "recycleGroup" /\ ~enabled) =>
                    /\ \E g \in live(s) :
                          /\ \A h \in Groups \cup Bins :
                                t.tree.parent[h] =
                                    IF inSubtree(s.tree, h, g) THEN NoGroup
                                    ELSE s.tree.parent[h]
                          /\ \A e \in Entries :
                                t.tree.entry[e] =
                                    IF inSubtree(s.tree, s.tree.entry[e].group, g)
                                    THEN NoEntry ELSE s.tree.entry[e]
                    /\ t.metadata = s.metadata
      ]_vars

\* C25 witness: a group was recycled into a bin that already held an entry;
\* both are direct children of the registered bin.
C25_Witness ==
    /\ ret.op = "recycleGroup"
    /\ db[1].metadata.recycleBinEnabled
    /\ db[1].metadata.recycleBin \in Bins
    /\ \E e \in Entries : db[1].tree.entry[e].group = db[1].metadata.recycleBin
    /\ \E g \in Groups : db[1].tree.parent[g] = db[1].metadata.recycleBin

\* C26: when a save to the bound path has just returned false after
\* performSave ran, and nothing else wrote the file, the save called next
\* for the same path is not refused for unmerged changes.
C26_RetryNotUnmerged ==
    [][\A d \in DBs :
          (/\ ret.d = d /\ ret.op = "saveAs" /\ ret.returned /\ ~ret.entry /\ ~ret.ok
           /\ ret'.d = d /\ ret'.op = "save" /\ ret'.entry)
          => ret'.err # "Unmerged"
      ]_vars

\* C27: a setKey with a key that returns false leaves the installed key, the
\* KDF seed, the cached transformed key and the modified flag as they were,
\* so that the cached transformed key of a keyed database is still the
\* transform of its key under the seed; only the key error is set.
C27_FailedSetKeyFrame ==
    [][\A d \in DBs : (ret'.d = d /\ ret'.op = "setKey" /\ ~ret'.ok) =>
          /\ ret'.err = "KeyError"
          /\ db'[d].key = db[d].key
          /\ db'[d].kdf = db[d].kdf
          /\ db'[d].kdfSeed = db[d].kdfSeed
          /\ db'[d].transformedDatabaseKey = db[d].transformedDatabaseKey
          /\ db'[d].m_modified = db[d].m_modified
          /\ (db[d].transformedDatabaseKey
                  = Transform(db[d].key, db[d].kdf, db[d].kdfSeed)) =>
                (db'[d].transformedDatabaseKey
                  = Transform(db'[d].key, db'[d].kdf, db'[d].kdfSeed))
      ]_vars

====
